---- MODULE Spec2Model ----
(***************************************************************************)
(* Model of the weekly momentum portfolio tracker (fetch_stock_data.py).   *)
(*                                                                         *)
(* The state is the persisted PortfolioState (holdings, cash, nav,         *)
(* in_cash, last_run) together with the inputs the last engine pass        *)
(* consumed (scan_results, market_trend) and the locals of that pass that  *)
(* the properties speak about (qualifying, gate_reasons, the bought        *)
(* tickers, the trade rows appended).                                      *)
(*                                                                         *)
(* Money.  Python floats are modelled by exact decimal arithmetic: an      *)
(* amount is a record [d |-> dollars, f |-> fraction], the fraction        *)
(* counted in half ten-thousandths of a dollar (Base of them make one      *)
(* dollar), 0 <= f < Base.  With closes drawn from {1, 2} every product    *)
(* (px / entry_price) * cost_basis is exact in that unit, so the only      *)
(* inexact step is the one the code makes explicit: round(entry_size, 4).  *)
(***************************************************************************)
EXTENDS Integers, Sequences, FiniteSets, TLC

\* ---------------------------------------------------------------- bounds

\* Number of instruments in tickers.csv (more than MAX_POSITIONS, so that
\* the capacity limit is exercised).
NumTickers == 22

\* Number of weekly runs explored.
MaxPeriods == 2

\* Number of runs explored when runs may be repeated on one date, interrupted
\* while saving, or fed a faulty benchmark (specification SpecOps).
OpsPeriods == 3

\* Largest number of attempts fetch_ticker is called with, and number of
\* calls of fetch_ticker explored (specification SpecFetch).
MaxAttempts == 5

MaxFetches == 2

\* ------------------------------------------------------ program constants

STARTING_NAV == 100000

MAX_POSITIONS == 20

MIN_STOCKS == 10

\* Python's None (also: a key missing from a record, read with .get).
None == -1

Tickers == 1..NumTickers

\* ------------------------------------------------------------------ money

\* round(entry_size, 4): cost-basis quanta (ten-thousandths) per dollar.
Quanta == 10000

\* Fraction units per dollar: half quanta.
Base == 2 * Quanta

Norm(d, f) == [d |-> d + (f \div Base), f |-> f % Base]

Amt(dollars) == [d |-> dollars, f |-> 0]

Zero == Amt(0)

Add(a, b) == Norm(a.d + b.d, a.f + b.f)

Sub(a, b) == Norm(a.d - b.d, a.f - b.f)

Less(a, b) == (a.d < b.d) \/ (a.d = b.d /\ a.f < b.f)

Leq(a, b) == (a = b) \/ Less(a, b)

\* a * n for a small natural n.
Times(a, n) == Norm(a.d * n, a.f * n)

\* a / n, rounded down to the fraction unit (exact whenever n divides a).
Over(a, n) == Norm(a.d \div n, (((a.d % n) * Base) + a.f) \div n)

\* (px / entry) * amount, the valuation of a position.
Scaled(a, px, entry) == Over(Times(a, px), entry)

\* round(a / n, 4): the quotient rounded to the nearest quantum, an exact
\* tie going to the even quantum as Python's round does.
RoundedQuotient(a, n) ==
    LET rest == ((a.d % n) * Base) + a.f
        q    == rest \div (2 * n)
        r    == rest % (2 * n)
        up   == IF r > n THEN 1 ELSE IF r = n THEN q % 2 ELSE 0
    IN  Norm(a.d \div n, 2 * (q + up))

\* round(a, 2): an amount rounded to the cent (100 quanta), ties to even.
Round2(a) ==
    LET q  == a.f \div (Base \div 100)
        r  == a.f % (Base \div 100)
        up == IF 2 * r > Base \div 100 THEN 1
              ELSE IF 2 * r = Base \div 100 THEN q % 2 ELSE 0
    IN  Norm(a.d, (q + up) * (Base \div 100))

\* Quotient and remainder of n by p, for amounts n >= 0 and p > 0 whose
\* quotient is small.
RECURSIVE QuotRem(_, _)
QuotRem(n, p) ==
    IF Less(n, p) THEN [q |-> 0, r |-> n]
    ELSE LET x == QuotRem(Sub(n, p), p) IN [q |-> x.q + 1, r |-> x.r]

\* floor(n / p * 10^k) and the remainder, by long division.
RECURSIVE LongDiv(_, _, _)
LongDiv(n, p, k) ==
    IF k = 0 THEN QuotRem(n, p)
    ELSE LET x == LongDiv(n, p, k - 1)
             y == QuotRem(Times(x.r, 10), p)
         IN  [q |-> (x.q * 10) + y.q, r |-> y.r]

\* round((n / p - 1) * 100, 4), in ten-thousandths of a percent.
ReturnPct(n, p) ==
    LET x  == LongDiv(n, p, 6)
        up == IF Less(p, Times(x.r, 2)) THEN 1
              ELSE IF Times(x.r, 2) = p THEN x.q % 2 ELSE 0
    IN  (x.q + up) - 1000000

\* ------------------------------------------------- the weekly scan (input)

\* Python truthiness of a close: None and 0.0 are falsy.
Truthy(c) == c # None /\ c # 0

\* round(hist_v / close, 6) if close and close != 0 else 0.0, with hist_v in
\* ten-thousandths and the score in millionths.
RankScoreOf(hist, close) ==
    IF Truthy(close) THEN ((2 * hist * 100) + close) \div (2 * close) ELSE 0

\* Fault variant of get_stock_data: the length of the history is not
\* checked, the signal is computed on whatever closes there are.
signal_on_short_history(ticker, data) ==
    LET base == [ticker |-> ticker, momentum |-> FALSE, weekly_close |-> None,
                 rank_score |-> None, status |-> "unknown"]
    IN  CASE data.kind = "raise" -> [base EXCEPT !.status = "error"]
          [] data.kind = "empty" -> [base EXCEPT !.status = "no_data"]
          [] data.kind = "short" /\ data.close = None ->
                [base EXCEPT !.status = "insufficient_history"]
          [] OTHER ->
                [base EXCEPT !.weekly_close = data.close,
                             !.rank_score = RankScoreOf(data.hist, data.close),
                             !.momentum = (data.macd > 0 /\ data.hist > 0),
                             !.status = "ok"]

\* get_stock_data: the record built from what fetch_ticker delivered.
\* data.kind is "raise" (an exception in fetch or compute), "empty" (no
\* rows), "short" (fewer than EMA_SLOW + EMA_SIG weekly closes; data.close is
\* the last one, None when there is none) or "full".
get_stock_data(ticker, data) ==
    LET base == [ticker |-> ticker, momentum |-> FALSE, weekly_close |-> None,
                 rank_score |-> None, status |-> "unknown"]
    IN  CASE data.kind = "raise" -> [base EXCEPT !.status = "error"]
          [] data.kind = "empty" -> [base EXCEPT !.status = "no_data"]
          [] data.kind = "short" ->
                [base EXCEPT !.weekly_close = data.close,
                             !.status = "insufficient_history"]
          [] OTHER ->
                [base EXCEPT !.weekly_close = data.close,
                             !.rank_score = RankScoreOf(data.hist, data.close),
                             !.momentum = (data.macd > 0 /\ data.hist > 0),
                             !.status = "ok"]

\* What the provider can deliver for an instrument whose signal is off or
\* whose data is faulty; "absent" is an instrument dropped from tickers.csv.
\* macd and hist are what calc_macd gives on the data, also where
\* get_stock_data returns before computing it.
FaultData ==
    << [kind |-> "full",   close |-> 1,    macd |-> 1,  hist |-> -1],
       [kind |-> "short",  close |-> 2,    macd |-> 1,  hist |-> 1],
       [kind |-> "empty",  close |-> None, macd |-> 0,  hist |-> 0],
       [kind |-> "full",   close |-> 2,    macd |-> -1, hist |-> 1],
       [kind |-> "raise",  close |-> None, macd |-> 0,  hist |-> 0],
       [kind |-> "short",  close |-> None, macd |-> 0,  hist |-> 0],
       [kind |-> "absent", close |-> None, macd |-> 0,  hist |-> 0],
       [kind |-> "full",   close |-> 0,    macd |-> 1,  hist |-> -1] >>

\* The closes a qualifying instrument is scanned at.
Closes == {1, 2}

\* The scans explored: the instruments first .. first+count-1 have their
\* signal on, all at the close pq and with a histogram that varies over the
\* instruments (with ties); the others cycle through FaultData.  v shifts
\* both patterns.
Firsts == {1, 2}

Counts == {MIN_STOCKS - 1, MIN_STOCKS + 2, NumTickers - 1}

Variants == {0, 1}

DataOf(i, first, count, pq, v) ==
    IF i >= first /\ i < first + count
    THEN [kind |-> "full", close |-> pq, macd |-> 1, hist |-> ((i + v) % 3) + 1]
    ELSE FaultData[((i - 1 + v) % Len(FaultData)) + 1]

\* main, lines 731-740: one record per row of tickers.csv, in file order.
RECURSIVE ScanFrom(_, _, _, _, _)
ScanFrom(i, first, count, pq, v) ==
    IF i > NumTickers THEN << >>
    ELSE LET data == DataOf(i, first, count, pq, v)
             rest == ScanFrom(i + 1, first, count, pq, v)
         IN  IF data.kind = "absent" THEN rest
             ELSE << get_stock_data(i, data) >> \o rest

\* The closes of SpecOps: a qualifying instrument may also be scanned at 0.0,
\* or at 3.0 (a close that does not divide the others).
OpsCloses == Closes \cup {0, 3}

\* The scans, one per choice of the parameters.
Scans ==
    [first \in Firsts, count \in Counts, pq \in OpsCloses,
     v \in Variants |-> ScanFrom(1, first, count, pq, v)]

\* What fetch_ticker delivered for each row of tickers.csv in that scan.
Fetches ==
    [first \in Firsts, count \in Counts, pq \in OpsCloses,
     v \in Variants |-> [i \in Tickers |-> DataOf(i, first, count, pq, v)]]

\* Fault variant of get_market_trend: the default of risk_on is True.
risk_on_by_default(bench) ==
    IF bench.kind = "full"
    THEN [ema10 |-> bench.ema10, ema20 |-> bench.ema20,
          risk_on |-> bench.ema10 >= bench.ema20, status |-> "ok"]
    ELSE [ema10 |-> None, ema20 |-> None, risk_on |-> TRUE, status |-> "fault"]

\* get_market_trend: the regime from what fetch_ticker delivered for the
\* benchmark; bench.kind is "raise", "empty", "short" (fewer than
\* MARKET_EMA_SLOW closes) or "full", with the two averages.
get_market_trend(bench) ==
    LET base == [ema10 |-> None, ema20 |-> None, risk_on |-> FALSE,
                 status |-> "unknown"]
    IN  CASE bench.kind = "raise" -> [base EXCEPT !.status = "error"]
          [] bench.kind = "empty" -> [base EXCEPT !.status = "no_data"]
          [] bench.kind = "short" -> [base EXCEPT !.status = "insufficient_history"]
          [] OTHER -> [base EXCEPT !.ema10 = bench.ema10, !.ema20 = bench.ema20,
                                   !.risk_on = (bench.ema10 >= bench.ema20),
                                   !.status = "ok"]

\* Benchmarks: the averages equal (risk-on), the fast one below (risk-off).
BenchOn == [kind |-> "full", ema10 |-> 1, ema20 |-> 1]

BenchOff == [kind |-> "full", ema10 |-> 1, ema20 |-> 2]

\* The benchmarks of SpecOps: also the three ways the data can be unusable.
OpsBenchmarks ==
    {BenchOn, BenchOff,
     [kind |-> "empty", ema10 |-> None, ema20 |-> None],
     [kind |-> "short", ema10 |-> None, ema20 |-> None],
     [kind |-> "raise", ema10 |-> None, ema20 |-> None]}

\* ------------------------------------------------------------- containers

SeqRange(s) == {s[i] : i \in 1..Len(s)}

TickersOf(s) == {s[i].ticker : i \in 1..Len(s)}

\* scan_by_t = {r["ticker"]: r for r in scan_results}
InScan(scan_results, t) == t \in TickersOf(scan_results)

scan_by_t(scan_results, t) ==
    scan_results[CHOOSE i \in 1..Len(scan_results) : scan_results[i].ticker = t]

\* r.get(key, default) for a field that a record may lack.
Get(value, default) == IF value = None THEN default ELSE value

Min(a, b) == IF a <= b THEN a ELSE b

\* ------------------------------------------------------------ the engine

\* The price a position is valued at (lines 233-235, and again 311-313 and
\* 338-340 for a sale): this week's close when the instrument has a record
\* with a truthy close, the entry price otherwise.
CurrentPrice(scan_results, pos) ==
    IF InScan(scan_results, pos.ticker)
       /\ Truthy(scan_by_t(scan_results, pos.ticker).weekly_close)
    THEN scan_by_t(scan_results, pos.ticker).weekly_close
    ELSE pos.entry_price

\* px / pos["entry_price"] (lines 236, 314, 341) raises ZeroDivisionError for
\* a position entered at 0.0.
DivisionByZero(holdings) ==
    \E i \in 1..Len(holdings) : holdings[i].entry_price = 0

\* Fault variant of mark_to_market: every position valued at its cost basis,
\* whatever its price.
RECURSIVE mark_at_cost(_, _, _)
mark_at_cost(cash, holdings, scan_results) ==
    IF holdings = << >> THEN cash
    ELSE mark_at_cost(Add(cash, Head(holdings).cost_basis), Tail(holdings),
                      scan_results)

\* mark_to_market: cash + sum of (px / entry_price) * cost_basis.
RECURSIVE MarkFrom(_, _, _, _)
MarkFrom(acc, holdings, scan_results, i) ==
    IF i > Len(holdings) THEN acc
    ELSE MarkFrom(Add(acc, Scaled(holdings[i].cost_basis,
                                  CurrentPrice(scan_results, holdings[i]),
                                  holdings[i].entry_price)),
                  holdings, scan_results, i + 1)

mark_to_market(cash, holdings, scan_results) ==
    MarkFrom(cash, holdings, scan_results, 1)

\* Fault variant of the realized P&L: the price ratio in percent, the cost
\* not taken off.
PnlPctOfRatio(sell_px, entry_price) ==
    ((2 * sell_px * 10000) + entry_price) \div (2 * entry_price)

\* (sell_px / entry_price - 1) * 100, rounded to 2 decimals by record_trade;
\* in hundredths of a percent.
PnlPct(sell_px, entry_price) ==
    (((2 * sell_px * 10000) + entry_price) \div (2 * entry_price)) - 10000

\* record_trade: the row appended to the trade log.  An argument left None is
\* written as the empty string, modelled by None.  Prices are closes, which
\* get_stock_data already rounded to 4 decimals.
record_trade(run_date, ticker, action, price, cost_basis, pnl_pct, reason) ==
    [date |-> run_date, ticker |-> ticker, action |-> action, price |-> price,
     cost_basis |-> cost_basis, realized_pnl_pct |-> pnl_pct, reason |-> reason]

SignalOff == [kind |-> "signal_off", gates |-> << >>, k |-> 0, n |-> 0]

CashRule(gate_reasons) ==
    [kind |-> "cash_rule", gates |-> gate_reasons, k |-> 0, n |-> 0]

RankOf(k, n) == [kind |-> "rank", gates |-> << >>, k |-> k, n |-> n]

\* The qualifying lookup (lines 299-304), in scan order.
IsQualifying(r) == r.momentum /\ r.status = "ok" /\ r.weekly_close # None

qualifying(scan_results) == SelectSeq(scan_results, IsQualifying)

\* Fault variant of to_sell: no signal-off exit at all.
to_sell_none(holdings, qual_t) == << >>

\* Line 308: the held positions whose instrument is not qualifying.
to_sell(holdings, qual_t) ==
    SelectSeq(holdings, LAMBDA p : p.ticker \notin qual_t)

\* holdings after holdings.pop(t) for every t of sold (line 310, 337).
Without(holdings, sold) ==
    LET gone == TickersOf(sold)
    IN  SelectSeq(holdings, LAMBDA p : p.ticker \notin gone)

\* Fault variant of the sales: every position is sold for its cost basis.
RECURSIVE RecoveredAtCost(_, _, _, _)
RecoveredAtCost(cash, sold, scan_results, i) ==
    IF i > Len(sold) THEN cash
    ELSE RecoveredAtCost(Add(cash, sold[i].cost_basis), sold, scan_results, i + 1)

\* The cash recovered by selling the positions of sold, in order
\* (lines 309-316 and 336-342).
RECURSIVE Recovered(_, _, _, _)
Recovered(cash, sold, scan_results, i) ==
    IF i > Len(sold) THEN cash
    ELSE Recovered(Add(cash, Scaled(sold[i].cost_basis,
                                    CurrentPrice(scan_results, sold[i]),
                                    sold[i].entry_price)),
                   sold, scan_results, i + 1)

\* The SELL rows of those sales (lines 317-320 and 343-347): the cost_basis
\* column of a SELL row holds the entry price.
SellRows(sold, scan_results, run_date, reason) ==
    [i \in 1..Len(sold) |->
        record_trade(run_date, sold[i].ticker, "SELL",
                     CurrentPrice(scan_results, sold[i]), sold[i].entry_price,
                     PnlPct(CurrentPrice(scan_results, sold[i]), sold[i].entry_price),
                     reason)]

\* Fault variants of the risk gates: one of the two checks, or both, left out.
GateRegimeOnly(q_count, market_trend) ==
    IF ~market_trend.risk_on THEN << "sp500_ema10_below_ema20" >> ELSE << >>

GateCountOnly(q_count, market_trend) ==
    IF q_count < MIN_STOCKS THEN << "qualifying_lt" >> ELSE << >>

GateNever(q_count, market_trend) == << >>

\* The risk gates (lines 328-332).
GateReasons(q_count, market_trend) ==
    (IF q_count < MIN_STOCKS THEN << "qualifying_lt" >> ELSE << >>)
    \o (IF ~market_trend.risk_on THEN << "sp500_ema10_below_ema20" >> ELSE << >>)

\* Fault variant of the insertion: r goes before the records of equal score
\* (an unstable sort).
RECURSIVE InsertBeforeTies(_, _)
InsertBeforeTies(sorted, r) ==
    IF sorted = << >> THEN << r >>
    ELSE IF Get(Head(sorted).rank_score, 0) > Get(r.rank_score, 0)
         THEN << Head(sorted) >> \o InsertBeforeTies(Tail(sorted), r)
         ELSE << r >> \o sorted

\* candidates.sort(key=rank_score, reverse=True): a stable sort, so records
\* with equal scores keep their scan order.  Insertion of r into a sorted
\* list goes after every record whose score is >= r's.
RECURSIVE InsertRanked(_, _)
InsertRanked(sorted, r) ==
    IF sorted = << >> THEN << r >>
    ELSE IF Get(Head(sorted).rank_score, 0) >= Get(r.rank_score, 0)
         THEN << Head(sorted) >> \o InsertRanked(Tail(sorted), r)
         ELSE << r >> \o sorted

RECURSIVE SortRanked(_, _)
SortRanked(sorted, rest) ==
    IF rest = << >> THEN sorted
    ELSE SortRanked(InsertRanked(sorted, Head(rest)), Tail(rest))

\* Lines 366-371.
candidates(qual, holdings) ==
    LET held == TickersOf(holdings)
    IN  SortRanked(<< >>, SelectSeq(qual, LAMBDA r : r.ticker \notin held))

\* Fault variant of the cost basis: NAV divided by the capacity limit.
CostBasisOfLimit(nav, total_after) == RoundedQuotient(nav, MAX_POSITIONS)

\* Lines 381-389: the cost basis of every position bought this week.
CostBasis(nav, total_after) == RoundedQuotient(nav, total_after)

\* Lines 391-398.
NewPosition(r, run_date, cost_basis) ==
    [ticker |-> r.ticker, entry_price |-> r.weekly_close, entry_date |-> run_date,
     cost_basis |-> cost_basis, rank_score_at_entry |-> Get(r.rank_score, 0)]

\* Fault variant of the buys: the kept positions are resized to the cost
\* basis of the new ones.
AfterBuysRebalanced(kept, new) ==
    [i \in 1..Len(kept) |-> [kept[i] EXCEPT !.cost_basis = new[1].cost_basis]] \o new

\* holdings[t] = {...} for each bought candidate (line 391): the new
\* positions follow the kept ones, which are not touched.
AfterBuys(kept, new) == kept \o new

\* Fault variant of the rows of a pass: entries logged before exits.
EntriesFirst(sell_rows, buy_rows) == buy_rows \o sell_rows

\* The rows a pass appends to the trade log: those of the sell loops
\* (lines 317, 343), then those of the buy loop (line 401).
TradeRows(sell_rows, buy_rows) == sell_rows \o buy_rows

\* Fault variant of the slots: at most one candidate is bought per pass.
SlotsSingle(held, cands) == Min(1, Min(MAX_POSITIONS - held, cands))

\* Fault variant of the flag: once set, in_cash is never cleared.
InCashKept(state, gate_reasons) == state.in_cash \/ gate_reasons # << >>

\* in_cash after the gates (lines 351 and 355): set when a gate fired,
\* cleared otherwise.
InCash(state, gate_reasons) == gate_reasons # << >>

\* Fault variant of the slots: half of the candidates are bought per pass.
SlotsHalf(held, cands) == Min(MAX_POSITIONS - held, (cands + 1) \div 2)

\* Fault variant of the slots: every candidate is bought.
SlotsUncapped(held, cands) == cands

\* Number of slots filled (lines 358, 373).
Slots(held, cands) == Min(MAX_POSITIONS - held, cands)

\* run_portfolio: the state after the pass, with the locals the properties
\* refer to.
run_portfolio(state, scan_results, run_date, market_trend) ==
    LET nav0      == mark_to_market(state.cash, state.holdings, scan_results)
        qual      == qualifying(scan_results)
        q_count   == Len(qual)
        qual_t    == TickersOf(qual)
        sold      == to_sell(state.holdings, qual_t)
        kept      == Without(state.holdings, sold)
        cash1     == Recovered(state.cash, sold, scan_results, 1)
        rows1     == SellRows(sold, scan_results, run_date, SignalOff)
        nav1      == mark_to_market(cash1, kept, scan_results)
        gate_reasons == GateReasons(q_count, market_trend)
        common    == [q_count |-> q_count, qualifying |-> qual_t,
                      gate_reasons |-> gate_reasons, nav_first |-> nav0,
                      nav_after_exits |-> nav1, kept |-> TickersOf(kept),
                      candidates |-> << >>, bought |-> << >>]
        raised    == [holdings |-> state.holdings, cash |-> state.cash,
                      nav |-> state.nav, in_cash |-> state.in_cash,
                      path |-> "raised", trades |-> << >>,
                      info |-> [q_count |-> 0, qualifying |-> {},
                                gate_reasons |-> << >>, nav_first |-> Zero,
                                nav_after_exits |-> Zero, kept |-> {},
                                candidates |-> << >>, bought |-> << >>]]
    IN  IF DivisionByZero(state.holdings) THEN raised
        ELSE IF gate_reasons # << >>
        THEN LET cash2 == Recovered(cash1, kept, scan_results, 1)
             IN  [holdings |-> << >>, cash |-> cash2, nav |-> cash2,
                  in_cash |-> InCash(state, gate_reasons), path |-> "gate",
                  trades |-> TradeRows(rows1 \o SellRows(kept, scan_results,
                                          run_date, CashRule(gate_reasons)),
                                       << >>),
                  info |-> common]
        ELSE IF MAX_POSITIONS - Len(kept) <= 0
        THEN [holdings |-> kept, cash |-> cash1, nav |-> nav1,
              in_cash |-> InCash(state, gate_reasons), path |-> "full",
              trades |-> TradeRows(rows1, << >>), info |-> common]
        ELSE LET cands == candidates(qual, kept)
                 slots == Slots(Len(kept), Len(cands))
             IN  IF slots = 0
                 THEN [holdings |-> kept, cash |-> cash1, nav |-> nav1,
                       in_cash |-> InCash(state, gate_reasons),
                       path |-> "no_candidates",
                       trades |-> TradeRows(rows1, << >>), info |-> common]
                 ELSE LET total_after == Len(kept) + slots
                          cost_basis  == CostBasis(nav1, total_after)
                          bought      == SubSeq(cands, 1, slots)
                          holdings2   == AfterBuys(kept,
                              [i \in 1..slots |->
                                  NewPosition(bought[i], run_date, cost_basis)])
                          cash2       == Sub(cash1, Times(cost_basis, slots))
                      IN  IF DivisionByZero(holdings2) THEN raised ELSE
                          [holdings |-> holdings2, cash |-> cash2,
                           nav |-> mark_to_market(cash2, holdings2, scan_results),
                           in_cash |-> InCash(state, gate_reasons),
                           path |-> "entries",
                           trades |-> TradeRows(rows1,
                              [i \in 1..slots |->
                                  record_trade(run_date, bought[i].ticker, "BUY",
                                               bought[i].weekly_close, None, None,
                                               RankOf(i, Len(cands)))]),
                           info |-> [common EXCEPT
                                        !.candidates = [i \in 1..Len(cands) |-> cands[i].ticker],
                                        !.bought = [i \in 1..slots |-> bought[i].ticker]]]

\* ------------------------------------------------------------ the system

VARIABLES holdings, cash, nav, in_cash, last_run,
          nav_history, trade_log, runs,
          fetched, benchmark, scan_results, market_trend, prev, pass,
          fetching

vars == << holdings, cash, nav, in_cash, last_run,
           nav_history, trade_log, runs,
           fetched, benchmark, scan_results, market_trend, prev, pass,
           fetching >>

\* The persisted PortfolioState.
State == [holdings |-> holdings, cash |-> cash, nav |-> nav, in_cash |-> in_cash]

NoInfo == [q_count |-> 0, qualifying |-> {}, gate_reasons |-> << >>,
           nav_first |-> Zero, nav_after_exits |-> Zero, kept |-> {},
           candidates |-> << >>, bought |-> << >>]

\* What the three persisted files held when the last run started.
Persisted ==
    [holdings |-> holdings, cash |-> cash, nav |-> nav, in_cash |-> in_cash,
     last_run |-> last_run, nav_history |-> nav_history, trade_log |-> trade_log]

\* Fault variant of append_nav: the return is always taken on the starting
\* capital.
PrevNavIsStart(nav_df) == Amt(STARTING_NAV)

\* Fault variant of append_nav: one row per date, the row of a date already
\* in the history is replaced.
append_nav_once_per_date(nav_df, run_date, nav_now, n_held, in_cash_now, q_count) ==
    LET row == [date |-> run_date, nav |-> Round2(nav_now),
                weekly_return_pct |-> 0, num_holdings |-> n_held,
                in_cash |-> in_cash_now, qualifying_count |-> q_count]
    IN  IF Len(nav_df) > 0 /\ nav_df[Len(nav_df)].date = run_date
        THEN [nav_df EXCEPT ![Len(nav_df)] = row]
        ELSE Append(nav_df, row)

\* Fault variant of append_nav: the newest row first.
append_nav_latest_first(nav_df, run_date, nav_now, n_held, in_cash_now, q_count) ==
    << [date |-> run_date, nav |-> Round2(nav_now), weekly_return_pct |-> 0,
        num_holdings |-> n_held, in_cash |-> in_cash_now,
        qualifying_count |-> q_count] >> \o nav_df

\* append_nav, line 248: the nav of the last row, the starting capital when
\* there is none.
PrevNav(nav_df) ==
    IF Len(nav_df) > 0 THEN nav_df[Len(nav_df)].nav ELSE Amt(STARTING_NAV)

\* append_nav: one row after the existing ones.
append_nav(nav_df, run_date, nav_now, n_held, in_cash_now, q_count) ==
    LET prev_nav == PrevNav(nav_df)
        wret     == IF prev_nav # Zero THEN ReturnPct(nav_now, prev_nav) ELSE 0
    IN  Append(nav_df, [date |-> run_date, nav |-> Round2(nav_now),
                        weekly_return_pct |-> wret, num_holdings |-> n_held,
                        in_cash |-> in_cash_now, qualifying_count |-> q_count])

\* fetch_ticker not called yet: attempts is the argument, i the loop
\* variable, calls the number of calls made to the provider, waits the
\* seconds slept after each failed call, failures the kind of each failed
\* call, status where the call stands ("idle", "trying", "returned" with a
\* result, "raised" with the exception re-raised, "none" when the loop ran
\* out and the function returned None) and outcomes the earlier calls.
NotFetching ==
    [attempts |-> 0, i |-> 0, calls |-> 0, waits |-> << >>, failures |-> << >>,
     status |-> "idle", outcomes |-> << >>]

\* load_state with no state file (lines 214-223) and the empty histories of
\* load_nav_history and load_trade_log, before the first run.
Init ==
    /\ holdings = << >>
    /\ cash = Amt(STARTING_NAV)
    /\ nav = Amt(STARTING_NAV)
    /\ in_cash = FALSE
    /\ last_run = 0
    /\ nav_history = << >>
    /\ trade_log = << >>
    /\ runs = 0
    /\ fetched = [i \in Tickers |-> [kind |-> "absent", close |-> None,
                                     macd |-> 0, hist |-> 0]]
    /\ benchmark = [kind |-> "empty", ema10 |-> None, ema20 |-> None]
    /\ scan_results = << >>
    /\ market_trend = [ema10 |-> None, ema20 |-> None, risk_on |-> FALSE,
                       status |-> "unknown"]
    /\ prev = [holdings |-> << >>, cash |-> Amt(STARTING_NAV),
               nav |-> Amt(STARTING_NAV), in_cash |-> FALSE, last_run |-> 0,
               nav_history |-> << >>, trade_log |-> << >>]
    /\ pass = [path |-> "none", trades |-> << >>, info |-> NoInfo,
               run_date |-> 0, writes |-> 0]
    /\ fetching = NotFetching

\* One invocation of main on the date run_date: scan every instrument, read
\* the market regime, load the persisted files, run the engine, then write
\* the state file, the NAV history and the trade log, in that order. The
\* process is stopped after `writes` of the three writes; an exception in the
\* engine ends it before the first. `limit` bounds the number of invocations.
main(limit, first, count, pq, v, bench, run_date, writes) ==
    /\ runs < limit
    /\ UNCHANGED fetching
    /\ LET scan == Scans[first, count, pq, v]
           mt   == get_market_trend(bench)
       IN  \E out \in {run_portfolio(State, scan, run_date, mt)} :
           LET done == IF out.path = "raised" THEN 0 ELSE writes
           IN  /\ runs' = runs + 1
               /\ fetched' = Fetches[first, count, pq, v]
               /\ benchmark' = bench
               /\ scan_results' = scan
               /\ market_trend' = mt
               /\ prev' = Persisted
               /\ pass' = [path |-> out.path, trades |-> out.trades,
                           info |-> out.info, run_date |-> run_date,
                           writes |-> done]
               /\ IF done >= 1
                  THEN /\ holdings' = out.holdings
                       /\ cash' = out.cash
                       /\ nav' = out.nav
                       /\ in_cash' = out.in_cash
                       /\ last_run' = run_date
                  ELSE UNCHANGED << holdings, cash, nav, in_cash, last_run >>
               /\ nav_history' =
                      IF done >= 2
                      THEN append_nav(nav_history, run_date, out.nav,
                                      Len(out.holdings), out.in_cash,
                                      out.info.q_count)
                      ELSE nav_history
               /\ trade_log' = IF done >= 3 THEN trade_log \o out.trades
                               ELSE trade_log

\* A weekly run that completes, on the date after the last one, the
\* benchmark delivering its averages.
WeeklyRun(first, count, pq, v, risk_on) ==
    main(MaxPeriods, first, count, pq, v,
         IF risk_on THEN BenchOn ELSE BenchOff, last_run + 1, 3)

Next ==
    \E first \in Firsts, count \in Counts, pq \in Closes, v \in Variants,
       risk_on \in BOOLEAN :
        WeeklyRun(first, count, pq, v, risk_on)

Spec == Init /\ [][Next]_vars

\* The qualifying counts of SpecOps.
OpsCounts == {MIN_STOCKS + 2, NumTickers - 1}

\* The scans of SpecOps: 12 or 21 qualifying instruments from the first row
\* on, 12 from the second row on with the other data shifted, 12 at a
\* doubled close, 12 at a close of 0.0, 12 at a close of 3.0.
OpsScans ==
    {[first |-> 1, count |-> MIN_STOCKS + 2, pq |-> 1, v |-> 0],
     [first |-> 1, count |-> NumTickers - 1, pq |-> 1, v |-> 0],
     [first |-> 2, count |-> MIN_STOCKS + 2, pq |-> 1, v |-> 1],
     [first |-> 1, count |-> MIN_STOCKS + 2, pq |-> 2, v |-> 0],
     [first |-> 1, count |-> MIN_STOCKS + 2, pq |-> 0, v |-> 0],
     [first |-> 1, count |-> MIN_STOCKS + 2, pq |-> 3, v |-> 0]}

\* A weekly run that completes unless the engine raises.
OpsRun(s) ==
    main(OpsPeriods, s.first, s.count, s.pq, s.v, BenchOn, last_run + 1, 3)

\* A weekly run whose benchmark is risk-off or unusable.
BenchmarkRun(count, bench) ==
    main(OpsPeriods, 1, count, 1, 0, bench, last_run + 1, 3)

\* main invoked again on the date of the last run.
RepeatedRun(count) ==
    /\ last_run > 0
    /\ main(OpsPeriods, 1, count, 1, 0, BenchOn, last_run, 3)

\* A weekly run stopped after the first or the second of its three writes.
InterruptedRun(count, writes) ==
    main(OpsPeriods, 1, count, 1, 0, BenchOn, last_run + 1, writes)

NextOps ==
    \/ \E s \in OpsScans : OpsRun(s)
    \/ \E count \in OpsCounts, bench \in OpsBenchmarks \ {BenchOn} :
           BenchmarkRun(count, bench)
    \/ \E count \in OpsCounts : RepeatedRun(count)
    \/ \E count \in OpsCounts, writes \in {1, 2} : InterruptedRun(count, writes)

SpecOps == Init /\ [][NextOps]_vars

\* ------------------------------------------------------------ fetch_ticker

\* 2 ** i for the loop variable.
RECURSIVE TwoToThe(_)
TwoToThe(i) == IF i = 0 THEN 1 ELSE 2 * TwoToThe(i - 1)

\* Fault variant of the retry test: the last attempt is retried as well.
RetryWheneverRetryable(retryable, i, attempts) == retryable

\* Line 120: the message matches a RETRYABLE pattern (in any case) and this
\* is not the last attempt.
ShouldRetry(retryable, i, attempts) == retryable /\ i < attempts

\* fetch_ticker(ticker, attempts) is called; the loop starts at i = 1, and
\* ends at once, returning None, when range(1, attempts + 1) is empty.
FetchCalled(attempts) ==
    /\ fetching.status # "trying"
    /\ Len(fetching.outcomes) + (IF fetching.status = "idle" THEN 0 ELSE 1)
          < MaxFetches
    /\ fetching' =
          [attempts |-> attempts, i |-> 1, calls |-> 0, waits |-> << >>,
           failures |-> << >>,
           status |-> IF 1 > attempts THEN "none" ELSE "trying",
           outcomes |-> IF fetching.status = "idle" THEN fetching.outcomes
                        ELSE Append(fetching.outcomes,
                                    [status |-> fetching.status,
                                     calls |-> fetching.calls])]
    /\ UNCHANGED << holdings, cash, nav, in_cash, last_run, nav_history,
                    trade_log, runs, fetched, benchmark, scan_results,
                    market_trend, prev, pass >>

\* The provider call of this attempt succeeds: its result is returned.
ProviderReturns ==
    /\ fetching.status = "trying"
    /\ fetching' = [fetching EXCEPT !.calls = @ + 1, !.status = "returned"]
    /\ UNCHANGED << holdings, cash, nav, in_cash, last_run, nav_history,
                    trade_log, runs, fetched, benchmark, scan_results,
                    market_trend, prev, pass >>

\* The provider call of this attempt raises, with a message that matches a
\* RETRYABLE pattern or not: sleep and go on with the next i, or re-raise;
\* when the loop runs out after a sleep the function returns None.
ProviderFails(retryable) ==
    /\ fetching.status = "trying"
    /\ fetching' =
          IF ShouldRetry(retryable, fetching.i, fetching.attempts)
          THEN [fetching EXCEPT
                   !.calls = @ + 1,
                   !.failures = Append(@, retryable),
                   !.waits = Append(@, Min(TwoToThe(fetching.i), 10)),
                   !.i = @ + 1,
                   !.status = IF fetching.i + 1 > fetching.attempts
                              THEN "none" ELSE "trying"]
          ELSE [fetching EXCEPT !.calls = @ + 1,
                                !.failures = Append(@, retryable),
                                !.status = "raised"]
    /\ UNCHANGED << holdings, cash, nav, in_cash, last_run, nav_history,
                    trade_log, runs, fetched, benchmark, scan_results,
                    market_trend, prev, pass >>

ProviderAnswers == ProviderReturns \/ \E retryable \in BOOLEAN : ProviderFails(retryable)

NextFetch ==
    \/ \E attempts \in 1..MaxAttempts : FetchCalled(attempts)
    \/ ProviderReturns
    \/ \E retryable \in BOOLEAN : ProviderFails(retryable)

\* Every provider call and every sleep ends.
SpecFetch == Init /\ [][NextFetch]_vars /\ WF_vars(ProviderAnswers)

\* ------------------------------------------------------------ properties
\* The properties are stated over the saved state and the scan the last run
\* consumed, independently of the engine's own operators.

Ran == last_run > 0

\* The records of this period's scan, and the record of an instrument.
ScanRecords == SeqRange(scan_results)

HasRecord(t) == \E r \in ScanRecords : r.ticker = t

RecordOf(t) == CHOOSE r \in ScanRecords : r.ticker = t

\* The qualifying set of the period: status ok, momentum true, close not null.
QualifyingSet ==
    {r.ticker : r \in {x \in ScanRecords :
                          x.status = "ok" /\ x.momentum /\ x.weekly_close # None}}

GateFired == Cardinality(QualifyingSet) < MIN_STOCKS \/ ~market_trend.risk_on

Held == TickersOf(holdings)

HeldBefore == TickersOf(prev.holdings)

\* The positions created by the last run.
NewPositions == {p \in SeqRange(holdings) : Ran /\ p.entry_date = last_run}

BuyRows == {i \in 1..Len(pass.trades) : pass.trades[i].action = "BUY"}

\* Sum of the values of a set of positions, each at the price price[p].
RECURSIVE ValueSum(_, _)
ValueSum(positions, price) ==
    IF positions = {} THEN Zero
    ELSE LET p == CHOOSE x \in positions : TRUE
         IN  Add(Scaled(p.cost_basis, price[p], p.entry_price),
                 ValueSum(positions \ {p}, price))

\* This period's close for the instrument, the entry price when no close is
\* available.
CloseOrEntry(p) ==
    IF HasRecord(p.ticker) /\ RecordOf(p.ticker).weekly_close # None
    THEN RecordOf(p.ticker).weekly_close
    ELSE p.entry_price

C2_CashNonNegative == Leq(Amt(-1), cash)

\* C3: the number of held positions is at most MAX_POSITIONS.
C3_AtMostMaxPositions == Len(holdings) <= MAX_POSITIONS

\* C3 witness: a full portfolio after a pass that left candidates unfilled.
C3_Witness ==
    /\ Len(holdings) = MAX_POSITIONS
    /\ pass.path = "entries"
    /\ \E t \in QualifyingSet : t \notin Held

\* C4: when fewer than MIN_STOCKS instruments qualify, the pass ends with no
\* holdings, in_cash true and nav equal to cash exactly.
C4_CountGateLiquidates ==
    (Ran /\ Cardinality(QualifyingSet) < MIN_STOCKS)
        => (holdings = << >> /\ in_cash /\ nav = cash)

\* C4 witness: the count gate alone fired (regime risk-on) on a portfolio
\* holding instruments that still qualify.
C4_Witness ==
    /\ Ran /\ Cardinality(QualifyingSet) < MIN_STOCKS
    /\ market_trend.risk_on
    /\ HeldBefore \cap QualifyingSet # {}
    /\ holdings = << >>

\* C5: when the regime is not risk-on, the pass ends with no holdings and
\* in_cash true, whatever the qualifying count.
C5_RegimeGateLiquidates ==
    (Ran /\ ~market_trend.risk_on) => (holdings = << >> /\ in_cash)

\* C5 witness: the regime gate alone fired, on a portfolio all of whose
\* instruments still qualify.
C5_Witness ==
    /\ Ran /\ ~market_trend.risk_on
    /\ Cardinality(QualifyingSet) >= MIN_STOCKS
    /\ HeldBefore # {} /\ HeldBefore \subseteq QualifyingSet
    /\ holdings = << >> /\ in_cash

\* C6: a position held before the pass is absent after it if and only if its
\* instrument is not in the qualifying set or a risk gate fired.
C6_RemovedIffSignalOffOrGate ==
    Ran => \A t \in HeldBefore :
              (t \notin Held) <=> (t \notin QualifyingSet \/ GateFired)

\* C6 witness: a pass without gate that removed one position and kept another.
C6_Witness ==
    /\ Ran /\ ~GateFired
    /\ \E t \in HeldBefore : t \notin Held
    /\ \E t \in HeldBefore : t \in Held

\* C7: in a period in which a risk gate fires, no position is created and no
\* BUY row is appended.
C7_GateBeforeEntries ==
    (Ran /\ GateFired) => (NewPositions = {} /\ BuyRows = {})

\* C7 witness: a gate fired although there were candidates and spare
\* capacity; positions were sold, none bought.
C7_Witness ==
    /\ Ran /\ GateFired
    /\ QualifyingSet \ HeldBefore # {}
    /\ Cardinality(HeldBefore) < MAX_POSITIONS
    /\ Len(pass.trades) > 0
    /\ BuyRows = {}

\* The cost bases of the positions created by the last run.
NewCostBases == {p.cost_basis : p \in NewPositions}

\* C8 as stated: the positions created in a period share one cost basis, and
\* it equals the post-exit NAV divided by the number of positions held after
\* the buys.
C8_CostBasisIsExactShare ==
    NewPositions # {} =>
        \A c \in NewCostBases :
            /\ NewCostBases = {c}
            /\ Times(c, Len(holdings)) = pass.info.nav_after_exits

\* C8 amended: the positions created in a period share one cost basis, a
\* whole number of ten-thousandths of a dollar, and it is the post-exit NAV
\* divided by the number of positions held after the buys, rounded to 4
\* decimals (it differs from the quotient by at most 0.00005).
C8_CostBasisIsRoundedShare ==
    NewPositions # {} =>
        \A c \in NewCostBases :
            /\ NewCostBases = {c}
            /\ c.f % 2 = 0
            /\ Leq(Times(c, Len(holdings)),
                   Add(pass.info.nav_after_exits, Norm(0, Len(holdings))))
            /\ Leq(pass.info.nav_after_exits,
                   Add(Times(c, Len(holdings)), Norm(0, Len(holdings))))

\* C8 witness: several positions bought beside kept ones, at a cost basis
\* that is not the exact quotient.
C8_Witness ==
    /\ Cardinality(NewPositions) >= 2
    /\ Len(holdings) > Cardinality(NewPositions)
    /\ \E c \in NewCostBases :
          Times(c, Len(holdings)) # pass.info.nav_after_exits

\* The candidates of the period: qualifying and not already held.
CandidateSet == QualifyingSet \ HeldBefore

Score(t) == Get(RecordOf(t).rank_score, 0)

ScanIndex(t) == CHOOSE i \in 1..Len(scan_results) : scan_results[i].ticker = t

\* t comes before u in the ranking: higher score, or equal score and earlier
\* in the scan.
RanksBefore(t, u) ==
    Score(t) > Score(u) \/ (Score(t) = Score(u) /\ ScanIndex(t) < ScanIndex(u))

NewTickers == {p.ticker : p \in NewPositions}

\* C9: without a gate, the instruments bought are the first
\* min(capacity, candidates) candidates of the ranking by score descending,
\* ties in scan order; they enter the holdings in that order.
C9_TopRankedFilled ==
    (Ran /\ ~GateFired) =>
        /\ NewTickers \subseteq CandidateSet
        /\ Cardinality(NewTickers) =
              Min(MAX_POSITIONS - Cardinality(HeldBefore \cap QualifyingSet),
                  Cardinality(CandidateSet))
        /\ \A t \in NewTickers, u \in CandidateSet \ NewTickers : RanksBefore(t, u)
        /\ \A i, j \in 1..Len(holdings) :
              (i < j /\ holdings[i] \in NewPositions /\ holdings[j] \in NewPositions)
                  => RanksBefore(holdings[i].ticker, holdings[j].ticker)

\* C9 witness: capacity ran out with candidates left, one of them tied with
\* a filled candidate and one of them strictly below.
C9_Witness ==
    /\ Ran /\ ~GateFired /\ NewTickers # {}
    /\ \E t \in NewTickers, u \in CandidateSet \ NewTickers : Score(t) = Score(u)
    /\ \E t \in NewTickers, u \in CandidateSet \ NewTickers : Score(t) > Score(u)

\* The close of the instrument's record when the record is present with a
\* (nonzero) close and status ok, the entry price otherwise.
OkCloseOrEntry(p) ==
    IF HasRecord(p.ticker) /\ RecordOf(p.ticker).weekly_close \notin {None, 0}
       /\ RecordOf(p.ticker).status = "ok"
    THEN RecordOf(p.ticker).weekly_close
    ELSE p.entry_price

\* C10: mark-to-market values a position at this period's close only when its
\* record has status ok; a position whose record is faulty or absent
\* contributes exactly its cost basis.  Stated of the first mark of the pass,
\* on the holdings loaded.
C10_FaultyRecordValuedAtCost ==
    Ran => pass.info.nav_first =
              Add(prev.cash, ValueSum(SeqRange(prev.holdings),
                        [p \in SeqRange(prev.holdings) |-> OkCloseOrEntry(p)]))

\* ------------------------------------------------------------ the ledgers

\* The effect of one trade log row on holdings and cash, read from the row
\* alone: a BUY opens a position at the row's price for the row's cost basis
\* (nothing when the column is empty), a SELL closes the position and
\* returns price / entry price of its cost basis.
ReplayRow(st, row) ==
    IF row.action = "BUY"
    THEN LET cb == IF row.cost_basis = None THEN Zero ELSE row.cost_basis
         IN  [holdings |-> Append(st.holdings,
                               [ticker |-> row.ticker, entry_price |-> row.price,
                                cost_basis |-> cb]),
              cash |-> Sub(st.cash, cb)]
    ELSE LET pos == CHOOSE p \in SeqRange(st.holdings) : p.ticker = row.ticker
             Other(p) == p.ticker # row.ticker
         IN  [holdings |-> SelectSeq(st.holdings, Other),
              cash |-> Add(st.cash, Scaled(pos.cost_basis, row.price,
                                           pos.entry_price))]

\* The state after replaying the first n rows from the initial state.
RECURSIVE Replay(_, _)
Replay(rows, n) ==
    IF n = 0 THEN [holdings |-> << >>, cash |-> Amt(STARTING_NAV)]
    ELSE ReplayRow(Replay(rows, n - 1), rows[n])

\* The holdings reduced to what a row can carry.
Ledgered(positions) ==
    [i \in 1..Len(positions) |->
        [ticker |-> positions[i].ticker, entry_price |-> positions[i].entry_price,
         cost_basis |-> positions[i].cost_basis]]

\* C11: replaying the persisted trade log from the initial state reproduces
\* the persisted state: the same holdings with the same entry price and
\* cost basis, and the same cash.
C11_ReplayReproducesState ==
    LET st == Replay(trade_log, Len(trade_log))
    IN  st.holdings = Ledgered(holdings) /\ st.cash = cash

\* C12: a position held both before and after a pass has all its fields
\* (entry price, entry date, cost basis, rank score at entry) unchanged by
\* the pass.
C12_KeptPositionsUnchanged ==
    \A p \in SeqRange(prev.holdings) :
        p.ticker \in Held => p \in SeqRange(holdings)

\* C12 witness: a pass that sold a position, kept others and bought new ones
\* at a cost basis different from that of a kept one.
C12_Witness ==
    /\ pass.path = "entries"
    /\ HeldBefore \ Held # {}
    /\ \E p \in SeqRange(prev.holdings), q \in NewPositions :
          p.ticker \in Held /\ q.cost_basis # p.cost_basis

\* The instruments whose data is faulty in the last scan: fetch or compute
\* raised, no rows, or fewer than EMA_SLOW + EMA_SIG weekly closes.
Faulty == {i \in Tickers : fetched[i].kind \in {"raise", "empty", "short"}}

\* The engine pass of the last run ran to its end.
PassCompleted == pass.path \in {"gate", "full", "no_candidates", "entries"}

\* C13: an instrument whose data is faulty gets a record whose status is not
\* ok and whose momentum flag is false, and is not in the qualifying set of
\* the pass; every other listed instrument still gets its record and the
\* engine pass runs to its end.
C13_FaultyInstrumentDegraded ==
    Ran =>
        /\ \A i \in Faulty :
              /\ HasRecord(i)
              /\ RecordOf(i).status # "ok"
              /\ ~RecordOf(i).momentum
              /\ i \notin pass.info.qualifying
              /\ i \notin NewTickers
        /\ \A i \in Tickers : fetched[i].kind # "absent" => HasRecord(i)
        /\ PassCompleted

\* C13 witness: a scan with the three kinds of fault, one of them on a short
\* history whose MACD and histogram are positive, in a pass that bought.
C13_Witness ==
    /\ Ran /\ pass.path = "entries"
    /\ \A k \in {"raise", "empty", "short"} : \E i \in Faulty : fetched[i].kind = k
    /\ \E i \in Faulty : /\ fetched[i].macd > 0 /\ fetched[i].hist > 0
                         /\ fetched[i].close # None

\* The last row of the NAV history, and the nav of the row before it (the
\* starting capital when there is none).
LastNavRow == nav_history[Len(nav_history)]

PrecedingNav ==
    IF Len(nav_history) > 1 THEN nav_history[Len(nav_history) - 1].nav
    ELSE Amt(STARTING_NAV)

\* The last run went through its three writes.
Completed == pass.writes = 3

\* The run appended exactly one row after the existing ones, dated of the
\* run, whose holdings count and in_cash flag are those of the saved state.
OneRowAppended ==
    /\ Len(nav_history) = Len(prev.nav_history) + 1
    /\ SubSeq(nav_history, 1, Len(prev.nav_history)) = prev.nav_history
    /\ LastNavRow.date = last_run
    /\ LastNavRow.num_holdings = Len(holdings)
    /\ LastNavRow.in_cash = in_cash

\* C19 as stated: the return of the appended row is exactly
\* (nav / prev_nav - 1) * 100, on the navs of the two rows.
C19_ReturnIsExactRatio ==
    Completed =>
           /\ OneRowAppended
           /\ LET x == LongDiv(LastNavRow.nav, PrecedingNav, 6)
              IN  /\ x.r = Zero
                  /\ LastNavRow.weekly_return_pct = x.q - 1000000

\* C19: each completed run appends exactly one row after the existing ones;
\* its return is (nav / prev_nav - 1) * 100 rounded to 4 decimals, nav being
\* the nav of the saved state (the row holds it rounded to the cent) and
\* prev_nav the nav of the preceding row, or the starting capital when there
\* is none; its holdings count and in_cash flag are those of the saved state.
C19_ReturnIsRoundedRatio ==
    Completed =>
           /\ OneRowAppended
           /\ LastNavRow.nav = Round2(nav)
           /\ LastNavRow.weekly_return_pct = ReturnPct(nav, PrecedingNav)

\* C19 witness: a completed run appending a third row, whose return is not
\* zero and is taken on a preceding row that differs from the starting
\* capital, the nav of the state not being a whole number of cents.
C19_Witness ==
    /\ Completed
    /\ Len(nav_history) = 3
    /\ LastNavRow.weekly_return_pct # 0
    /\ PrecedingNav # Amt(STARTING_NAV)
    /\ LastNavRow.nav # nav

\* The rows the last run appended to the trade log.
AppendedRows == SubSeq(trade_log, Len(prev.trade_log) + 1, Len(trade_log))

\* C20: among the rows one pass writes, every SELL row precedes every BUY
\* row, and the BUY rows are in rank order: the k-th of them is rank k, and
\* its instrument ranks before that of the next.
C20_ExitsBeforeEntriesInRankOrder ==
    LET rows  == AppendedRows
        sells == Cardinality({i \in 1..Len(rows) : rows[i].action = "SELL"})
    IN  /\ rows = pass.trades
        /\ \A i \in 1..Len(rows) : (rows[i].action = "SELL") <=> (i <= sells)
        /\ \A i \in 1..Len(rows) :
              i > sells => /\ rows[i].action = "BUY"
                           /\ rows[i].reason.kind = "rank"
                           /\ rows[i].reason.k = i - sells
        /\ \A i, j \in 1..Len(rows) :
              (sells < i /\ i < j) => RanksBefore(rows[i].ticker, rows[j].ticker)

\* C20 witness: a pass that wrote SELL rows and several BUY rows.
C20_Witness ==
    /\ \E i \in 1..Len(AppendedRows) : AppendedRows[i].action = "SELL"
    /\ Cardinality({i \in 1..Len(AppendedRows) : AppendedRows[i].action = "BUY"}) > 1

\* ------------------------------------------------------------ operations

\* The benchmark data of the last run was unusable: the fetch raised, no
\* rows, or fewer than MARKET_EMA_SLOW closes.
BenchmarkUnusable == runs > 0 /\ benchmark.kind \in {"raise", "empty", "short"}

\* C14: when the benchmark data is unusable the regime is risk-off, the pass
\* takes the risk gate, and the period ends with no holdings and in_cash
\* true.
C14_UnusableBenchmarkIsRiskOff ==
    BenchmarkUnusable =>
        /\ ~market_trend.risk_on
        /\ market_trend.status # "ok"
        /\ pass.path = "gate"
        /\ \E i \in 1..Len(pass.info.gate_reasons) :
              pass.info.gate_reasons[i] = "sp500_ema10_below_ema20"
        /\ holdings = << >>
        /\ in_cash

\* C14 witness: an unusable benchmark in a period where enough instruments
\* qualify, on a portfolio that held positions: only the regime closes it.
C14_Witness ==
    /\ BenchmarkUnusable
    /\ Cardinality(QualifyingSet) >= MIN_STOCKS
    /\ prev.holdings # << >>
    /\ holdings = << >>

\* A persisted state that is numerically inconsistent: cash negative beyond
\* a rounding epsilon (here, generously, one dollar) or more positions than
\* MAX_POSITIONS.
Inconsistent(p) == Less(p.cash, Amt(-1)) \/ Len(p.holdings) > MAX_POSITIONS

\* C15: a run that loads an inconsistent persisted state aborts before any
\* mutation: the state, the NAV history and the trade log are left as they
\* were.
C15_InconsistentStateAborts ==
    (runs > 0 /\ Inconsistent(prev)) => Persisted = prev

\* C16: a pass never raises, whatever the closes (zero included), the
\* candidates and the capacity; with no candidate or no capacity it creates
\* no position and leaves the cash as the exits left it.
C16_EdgeCasesNeverRaise ==
    runs > 0 =>
        /\ pass.path # "raised"
        /\ pass.path \in {"full", "no_candidates"} =>
              /\ pass.info.bought = << >>
              /\ TickersOf(holdings) \subseteq TickersOf(prev.holdings)

\* The state file, the NAV history and the trade log after the last run:
\* each as the run left it when complete, or as it was before the run.
StateFileApplied == last_run = pass.run_date

NavHistoryApplied == Len(nav_history) = Len(prev.nav_history) + 1

TradeLogApplied == trade_log = prev.trade_log \o pass.trades

NothingApplied ==
    /\ [holdings |-> holdings, cash |-> cash, nav |-> nav, in_cash |-> in_cash,
        last_run |-> last_run]
         = [holdings |-> prev.holdings, cash |-> prev.cash, nav |-> prev.nav,
            in_cash |-> prev.in_cash, last_run |-> prev.last_run]
    /\ nav_history = prev.nav_history
    /\ trade_log = prev.trade_log

\* C17: after a run, however it ended, either the state file, the NAV
\* history and the trade log all reflect the period, or none of them does.
C17_PeriodAppliedAtomically ==
    runs > 0 =>
        \/ StateFileApplied /\ NavHistoryApplied /\ TradeLogApplied
        \/ NothingApplied

\* The last run was made on the date the persisted state already carried.
SameDateAgain == runs > 0 /\ prev.last_run > 0 /\ pass.run_date = prev.last_run

\* C18: a run on the date of the last run is processed as a new period: the
\* engine pass runs on the saved state, its rows go to the trade log and a
\* NAV history row of that date is appended after the existing ones.
C18_SameDateIsNewPeriod ==
    (SameDateAgain /\ Completed) =>
        /\ PassCompleted
        /\ pass.info.kept \subseteq TickersOf(prev.holdings)
        /\ trade_log = prev.trade_log \o pass.trades
        /\ Len(nav_history) = Len(prev.nav_history) + 1
        /\ SubSeq(nav_history, 1, Len(prev.nav_history)) = prev.nav_history
        /\ LastNavRow.date = pass.run_date

\* C18 witness: a second completed run on one date that bought, leaving two
\* NAV history rows of that date.
C18_Witness ==
    /\ SameDateAgain /\ Completed
    /\ pass.path = "entries" /\ pass.info.bought # << >>
    /\ Len(nav_history) > 1
    /\ nav_history[Len(nav_history) - 1].date = LastNavRow.date

\* ------------------------------------------------------------ the periods

\* old is a prefix of new.
IsPrefix(old, new) ==
    Len(old) <= Len(new) /\ SubSeq(new, 1, Len(old)) = old

C22_NoGateFillsToMin ==
    (Ran /\ ~GateFired) =>
        /\ Len(holdings) = Min(MAX_POSITIONS, Cardinality(QualifyingSet))
        /\ Held \subseteq QualifyingSet
        /\ in_cash = FALSE
        /\ (prev.holdings = << >> /\ Cardinality(QualifyingSet) = MIN_STOCKS + 2) =>
              /\ Held = QualifyingSet
              /\ \A p \in SeqRange(holdings) :
                    /\ Leq(Times(p.cost_basis, MIN_STOCKS + 2), Add(prev.nav, Norm(0, Base \div 100)))
                    /\ Leq(prev.nav, Add(Times(p.cost_basis, MIN_STOCKS + 2), Norm(0, Base \div 100)))
              /\ Leq(Norm(0, 0 - (Base \div 100)), cash)
              /\ Leq(cash, Norm(0, Base \div 100))

\* The scenario of C22: an all-cash portfolio, 12 qualifying, no gate.
AllCashTwelveQualify ==
    /\ Ran /\ ~GateFired
    /\ prev.holdings = << >> /\ Cardinality(QualifyingSet) = MIN_STOCKS + 2
    /\ Len(holdings) = MIN_STOCKS + 2

\* C22 witness: a pass without gate that kept, sold and bought with more
\* than MAX_POSITIONS qualifying, in a run that follows the scenario.
C22_Witness ==
    /\ Ran /\ ~GateFired
    /\ Cardinality(QualifyingSet) > MAX_POSITIONS
    /\ Len(prev.holdings) = MIN_STOCKS + 2
    /\ HeldBefore \ Held # {} /\ HeldBefore \cap Held # {} /\ NewTickers # {}

\* The engine pass of the last run completed and its state was saved.
PassSaved == PassCompleted /\ pass.writes >= 1

\* The price a position leaves at: this period's close when the scan has
\* one (a close of 0.0 counts as none), the entry price otherwise.
ExitPrice(p) ==
    IF HasRecord(p.ticker) /\ RecordOf(p.ticker).weekly_close \notin {None, 0}
    THEN RecordOf(p.ticker).weekly_close
    ELSE p.entry_price

\* The positions the last pass sold and the positions it bought.
SoldPositions == {p \in SeqRange(prev.holdings) : p.ticker \notin Held}

BoughtPositions == {p \in SeqRange(holdings) : p.ticker \notin HeldBefore}

SellRowsOf(t) ==
    {i \in 1..Len(pass.trades) :
        pass.trades[i].action = "SELL" /\ pass.trades[i].ticker = t}

\* Every sale removed a whole position, with one SELL row at the exit price
\* and the entry price, and cash grew by exit / entry of each cost basis
\* (less the cost bases of the positions bought).
WholeSales ==
    /\ \A i \in 1..Len(pass.trades) :
          pass.trades[i].action = "SELL" =>
              \E p \in SoldPositions : p.ticker = pass.trades[i].ticker
    /\ \A p \in SoldPositions :
          /\ Cardinality(SellRowsOf(p.ticker)) = 1
          /\ \A i \in SellRowsOf(p.ticker) :
                /\ pass.trades[i].price = ExitPrice(p)
                /\ pass.trades[i].cost_basis = p.entry_price
    /\ \A p \in SeqRange(prev.holdings) : p.ticker \in Held => p \in SeqRange(holdings)
    /\ Add(cash, ValueSum(BoughtPositions,
                          [p \in BoughtPositions |-> p.entry_price]))
          = Add(prev.cash, ValueSum(SoldPositions,
                                    [p \in SoldPositions |-> ExitPrice(p)]))

\* C23 as stated: the realized P&L% of every SELL row is exactly
\* (exit_price / entry_price - 1) * 100.
C23_SellPnlIsExactRatio ==
    PassSaved =>
        /\ WholeSales
        /\ \A p \in SoldPositions : \A i \in SellRowsOf(p.ticker) :
              pass.trades[i].realized_pnl_pct * p.entry_price
                  = (ExitPrice(p) - p.entry_price) * 10000

\* C23: every sell removes the whole position, increases cash by
\* (exit_price / entry_price) * cost_basis and appends one SELL row whose
\* realized P&L% is (exit_price / entry_price - 1) * 100 rounded to 2
\* decimals; a position sold with no close returns its cost basis and a P&L
\* of 0.
C23_SellPnlIsRoundedRatio ==
    PassSaved =>
        /\ WholeSales
        /\ \A p \in SoldPositions : \A i \in SellRowsOf(p.ticker) :
              LET err == (pass.trades[i].realized_pnl_pct * p.entry_price)
                            - ((ExitPrice(p) - p.entry_price) * 10000)
              IN  /\ 2 * err <= p.entry_price
                  /\ 0 - (2 * err) <= p.entry_price
                  /\ ExitPrice(p) = p.entry_price =>
                        pass.trades[i].realized_pnl_pct = 0

\* C23 witness: a pass that sold one position above its entry price, one
\* with no close at its entry price, and one at a ratio that has no exact
\* 2-decimal percentage.
C23_Witness ==
    /\ PassSaved
    /\ \E p \in SoldPositions : ExitPrice(p) > p.entry_price
    /\ \E p \in SoldPositions :
          ~HasRecord(p.ticker) \/ RecordOf(p.ticker).weekly_close = None
    /\ \E p \in SoldPositions :
          ((ExitPrice(p) - p.entry_price) * 10000) % p.entry_price # 0

\* C24: the NAV at the end of a pass equals the NAV of the first
\* mark-to-market of that pass, cash plus every loaded position at this
\* period's price: exits and entries by themselves never change NAV.
C24_TradesPreserveNav ==
    PassSaved =>
        /\ nav = Add(prev.cash, ValueSum(SeqRange(prev.holdings),
                        [p \in SeqRange(prev.holdings) |-> ExitPrice(p)]))
        /\ nav = pass.info.nav_first

\* C24 witness: a pass that sold a position whose price had moved, kept
\* others and bought new ones, the NAV differing from the one loaded.
C24_Witness ==
    /\ PassSaved /\ pass.path = "entries"
    /\ \E p \in SoldPositions : ExitPrice(p) # p.entry_price
    /\ HeldBefore \cap Held # {}
    /\ BoughtPositions # {}
    /\ nav # prev.nav

\* C25: run_portfolio invoked again on the state a pass produced, with the
\* same scan records and the same regime, appends no trade record and
\* leaves holdings, cash, nav and in_cash as they are.
C25_RescanIdempotent ==
    PassSaved =>
        \E again \in {run_portfolio(State, scan_results, pass.run_date, market_trend)} :
            /\ again.trades = << >>
            /\ again.holdings = holdings
            /\ again.cash = cash
            /\ again.nav = nav
            /\ again.in_cash = in_cash

\* C25 witness: a pass that sold and bought, leaving room and no
\* candidate, or no room and candidates.
C25_Witness ==
    /\ PassSaved /\ pass.path = "entries"
    /\ SoldPositions # {} /\ BoughtPositions # {}
    /\ Len(holdings) = MAX_POSITIONS
    /\ QualifyingSet \ Held # {}

\* The actions recorded for an instrument, in the order of the trade log.
ActionsOf(t) ==
    LET Mine(row) == row.ticker = t
        rows == SelectSeq(trade_log, Mine)
    IN  [i \in 1..Len(rows) |-> rows[i].action]

\* C26: in the trade log the records of each instrument alternate BUY,
\* SELL, BUY, ... beginning with BUY, and no instrument has both a SELL and
\* a BUY among the rows of one pass.
C26_TradesAlternate ==
    /\ \A t \in Tickers :
          \A i \in 1..Len(ActionsOf(t)) :
              ActionsOf(t)[i] = (IF i % 2 = 1 THEN "BUY" ELSE "SELL")
    /\ \A i, j \in 1..Len(AppendedRows) :
          AppendedRows[i].ticker = AppendedRows[j].ticker => i = j

\* C27: at the end of a pass in_cash is true exactly when a gate fired in
\* it, a pass with no gate ends with at least MIN_STOCKS holdings, and in
\* every saved state in_cash is true exactly when the holdings are empty.
C27_InCashIffGate ==
    /\ PassSaved => /\ in_cash <=> GateFired
                    /\ ~GateFired => Len(holdings) >= MIN_STOCKS
    /\ last_run > 0 => (in_cash <=> holdings = << >>)

\* C27 witness: a pass without gate on a state that was in cash, after a
\* pass whose gate had emptied the portfolio.
C27_Witness ==
    /\ PassSaved /\ ~GateFired
    /\ prev.in_cash /\ prev.last_run > 0
    /\ ~in_cash /\ holdings # << >>

\* ------------------------------------------------------------ the fetch

\* The state of a call of fetch_ticker is as the loop allows: at most
\* attempts provider calls, every failed call but the last one retryable
\* and followed by a sleep of 2, 4, 8, 10, 10, ... seconds, a result
\* returned from the first call that succeeds, the exception re-raised on a
\* failure that is not retryable or is that of the last attempt, and never
\* the end of the loop with nothing to return.
FetchAsSpecified ==
    LET f == fetching
        failed == Len(f.failures)
    IN  /\ f.calls <= f.attempts
        /\ f.status # "none"
        /\ \A k \in 1..Len(f.waits) :
              /\ f.failures[k]
              /\ f.waits[k] = (IF k = 1 THEN 2 ELSE IF k = 2 THEN 4
                               ELSE IF k = 3 THEN 8 ELSE 10)
        /\ f.status = "trying" =>
              /\ failed = f.calls /\ Len(f.waits) = failed /\ f.i = f.calls + 1
        /\ f.status = "returned" =>
              /\ failed = f.calls - 1 /\ Len(f.waits) = failed
        /\ f.status = "raised" =>
              /\ failed = f.calls /\ Len(f.waits) = failed - 1
              /\ ~f.failures[failed] \/ f.calls = f.attempts

\* C28: fetch_ticker with attempts >= 1 always ends, after at most attempts
\* calls to the provider, by returning the first successful result or by
\* re-raising the exception of a failure that is not retryable or is the
\* last attempt's, having slept min(2^i, 10) seconds after each other
\* failure; it never returns without a result.
C28_FetchTerminates ==
    /\ []FetchAsSpecified
    /\ (fetching.status = "trying") ~> (fetching.status \in {"returned", "raised"})

\* C28 witness: a call with the largest number of attempts re-raising after
\* every attempt failed with a retryable message (the sleeps reaching the
\* cap of 10 seconds), after an earlier call that returned on a retry.
C28_Witness ==
    /\ fetching.status = "raised"
    /\ fetching.calls = MaxAttempts
    /\ fetching.failures[MaxAttempts]
    /\ fetching.waits[Len(fetching.waits)] = 10
    /\ \E k \in 1..Len(fetching.outcomes) :
          fetching.outcomes[k].status = "returned" /\ fetching.outcomes[k].calls > 1

====
